---------------------------- MODULE Spec2Model ----------------------------
(***************************************************************************)
(* Model of the banking API (database.py, models.py, main.py).            *)
(*                                                                         *)
(* Money.  The code holds money in Python floats and calls round(x, 2) at *)
(* the schema boundary and when it stores a value.  Here every amount is  *)
(* an integer number of thousandths (1000.00 is 1000000), so a request    *)
(* can carry a third decimal and round(x, 2) is the operator Round2, a    *)
(* real conversion.  Amounts whose third decimal is 5 are left out of the *)
(* inputs: such a decimal has no exact double, and Python rounds the      *)
(* nearest double, up for 0.005 and down for 0.015.                       *)
(*                                                                         *)
(* Left out of the records: nome, senha_hash, tipo_conta, descricao and   *)
(* the timestamps.  No branch of the code reads them.                     *)
(***************************************************************************)
EXTENDS Integers, Sequences, FiniteSets, TLC

VARIABLES
    db,          \* the DatabaseSimulator instance (database.py:184)
    resp,        \* the last request served and its response
    reqs,        \* requests received and not yet answered (concurrent runs)
    executando   \* the request whose coroutine holds the event loop, 0 if none

vars == <<db, resp, reqs, executando>>

---------------------------------------------------------------------------
(* Bounds and input sets *)

MaxTransacoes == 3

CPFs == {"12345678900", "98765432100"}

\* random.randint(0, 9): the check digit of an account number.  The digit is
\* stored in numero_conta and read by no branch of the code.  SpecContas, the
\* specification of the account registry, draws it from the whole range;
\* Spec, which adds the ledger, draws it from DigitosDoLedger.
DigitosSorteados == 0..9
DigitosDoLedger == {7}

\* request amounts in thousandths.  Deposits: -50.00, 0, 0.004, 500.00, 1000.00
\* (test_api.py deposits 1000.00 and 500.00); withdrawals: -50.00, 0, 0.004,
\* 200.00, 500.00 (test_api.py withdraws 200.00 and -50.00)
ValoresDeposito == {-50000, 0, 4, 500000, 1000000}
ValoresSaque == {-50000, 0, 4, 200000, 500000}

DEPOSITO == "deposito"
SAQUE == "saque"

None == [none |-> TRUE]

---------------------------------------------------------------------------
(* Helpers *)

\* Python's round(x, 2) on a value in thousandths
Round2(x) ==
    LET r == x % 10 IN IF r < 5 THEN x - r ELSE x - r + 10

\* d[k] = v on a dict
Put(d, k, v) == [x \in (DOMAIN d) \cup {k} |-> IF x = k THEN v ELSE d[x]]

\* d.get(k, default)
Get(d, k, default) == IF k \in DOMAIN d THEN d[k] ELSE default

RECURSIVE SumSeq(_)
SumSeq(s) == IF s = << >> THEN 0 ELSE Head(s) + SumSeq(Tail(s))

EmptyDict == [x \in {} |-> 0]

---------------------------------------------------------------------------
(* DatabaseSimulator *)

DatabaseSimulator ==
    [ usuarios               |-> EmptyDict,
      contas                 |-> EmptyDict,
      transacoes             |-> EmptyDict,
      usuario_id_counter     |-> 1,
      conta_id_counter       |-> 1,
      transacao_id_counter   |-> 1,
      cpf_to_usuario_id      |-> EmptyDict,
      usuario_id_to_conta_id |-> EmptyDict,
      conta_id_to_transacoes |-> EmptyDict ]

\* variant of gerar_numero_conta: the sequence component is left constant
gerar_numero_sem_sequencia(d, digito) ==
    [agencia |-> "0001", numero |-> 0, digito |-> digito]

\* the sequence component; zfill(6) and the "0001-" prefix are injective on it
gerar_numero_conta(d, digito) ==
    [agencia |-> "0001", numero |-> d.conta_id_counter, digito |-> digito]

\* Each method returns [db, erro, ret]: the instance after the call, the
\* message of the ValueError raised ("" if none) and the value returned.
Raise(d, msg) == [db |-> d, erro |-> msg, ret |-> None]
Return(d, v) == [db |-> d, erro |-> "", ret |-> v]

\* variant of CpfJaCadastrado: the duplicate test is left out
CpfNuncaCadastrado(d, cpf) == FALSE

\* line 41: cpf in self.cpf_to_usuario_id
CpfJaCadastrado(d, cpf) == cpf \in DOMAIN d.cpf_to_usuario_id

criar_usuario(d, cpf) ==
    IF CpfJaCadastrado(d, cpf)
    THEN Raise(d, "CPF ja cadastrado")
    ELSE LET usuario_id == d.usuario_id_counter
             usuario == [id |-> usuario_id, cpf |-> cpf]
         IN Return([d EXCEPT !.usuario_id_counter = @ + 1,
                             !.usuarios = Put(@, usuario_id, usuario),
                             !.cpf_to_usuario_id = Put(@, cpf, usuario_id)],
                   usuario)

obter_usuario_por_cpf(d, cpf) ==
    LET usuario_id == Get(d.cpf_to_usuario_id, cpf, 0)
    IN IF usuario_id # 0 THEN Get(d.usuarios, usuario_id, None) ELSE None

obter_usuario_por_id(d, usuario_id) == Get(d.usuarios, usuario_id, None)

\* variant of UsuarioJaPossuiConta: the one-account test is left out
UsuarioNuncaPossuiConta(d, usuario_id) == FALSE

\* line 77: usuario_id in self.usuario_id_to_conta_id
UsuarioJaPossuiConta(d, usuario_id) == usuario_id \in DOMAIN d.usuario_id_to_conta_id

criar_conta(d, usuario_id, digito) ==
    IF usuario_id \notin DOMAIN d.usuarios
    THEN Raise(d, "Usuario nao encontrado")
    ELSE IF UsuarioJaPossuiConta(d, usuario_id)
    THEN Raise(d, "Usuario ja possui uma conta")
    ELSE LET conta_id == d.conta_id_counter
             d1 == [d EXCEPT !.conta_id_counter = @ + 1]
             conta == [id |-> conta_id,
                       numero_conta |-> gerar_numero_conta(d1, digito),
                       saldo |-> 0,
                       usuario_id |-> usuario_id]
         IN Return([d1 EXCEPT !.contas = Put(@, conta_id, conta),
                              !.usuario_id_to_conta_id = Put(@, usuario_id, conta_id),
                              !.conta_id_to_transacoes = Put(@, conta_id, << >>)],
                   conta)

obter_conta_por_usuario(d, usuario_id) ==
    LET conta_id == Get(d.usuario_id_to_conta_id, usuario_id, 0)
    IN IF conta_id # 0 THEN Get(d.contas, conta_id, None) ELSE None

obter_conta_por_id(d, conta_id) == Get(d.contas, conta_id, None)

\* variant of atualizar_saldo: the balance is not stored
atualizar_saldo_sem_efeito(d, conta_id, novo_saldo) == d

\* variant of atualizar_saldo: the balance is written to every account
atualizar_todos_os_saldos(d, conta_id, novo_saldo) ==
    [d EXCEPT !.contas = [c \in DOMAIN @ |-> [@[c] EXCEPT !.saldo = Round2(novo_saldo)]]]

atualizar_saldo(d, conta_id, novo_saldo) ==
    IF conta_id \in DOMAIN d.contas
    THEN [d EXCEPT !.contas[conta_id].saldo = Round2(novo_saldo)]
    ELSE d

\* variants of SaldoInsuficiente: no test at all, and <= in place of <
SaldoNuncaInsuficiente(saldo_anterior, valor) == FALSE

SaldoInsuficienteOuIgual(saldo_anterior, valor) == saldo_anterior <= valor

\* line 131: the test that rejects a withdrawal
SaldoInsuficiente(saldo_anterior, valor) == saldo_anterior < valor

\* variant of SaldoPosterior: a withdrawal is added like a deposit
SaldoPosteriorSempreSoma(tipo, saldo_anterior, valor) == saldo_anterior + valor

\* variant of SaldoPosterior: a withdrawal is not debited
SaldoPosteriorSemDebito(tipo, saldo_anterior, valor) ==
    IF tipo = SAQUE THEN saldo_anterior ELSE saldo_anterior + valor

\* lines 130-135: the balance after the operation
SaldoPosterior(tipo, saldo_anterior, valor) ==
    IF tipo = SAQUE THEN saldo_anterior - valor ELSE saldo_anterior + valor

\* variant of AnexarTransacao: list.insert(0, ...) in place of list.append
AnexarNoInicio(lista, transacao_id) == <<transacao_id>> \o lista

\* variant of AnexarTransacao: the list is started over with the new id
ReiniciarLista(lista, transacao_id) == <<transacao_id>>

\* variant of AnexarTransacao: the id is not put on the list
NaoAnexar(lista, transacao_id) == lista

\* line 153: list.append
AnexarTransacao(lista, transacao_id) == Append(lista, transacao_id)

criar_transacao(d, conta_id, tipo, valor) ==
    LET conta == obter_conta_por_id(d, conta_id) IN
    IF conta = None
    THEN Raise(d, "Conta nao encontrada")
    ELSE LET saldo_anterior == conta.saldo IN
         IF tipo = SAQUE /\ SaldoInsuficiente(saldo_anterior, valor)
         THEN Raise(d, "Saldo insuficiente para realizar o saque")
         ELSE LET saldo_posterior == SaldoPosterior(tipo, saldo_anterior, valor)
                  transacao_id == d.transacao_id_counter
                  transacao == [id |-> transacao_id,
                                conta_id |-> conta_id,
                                tipo |-> tipo,
                                valor |-> Round2(valor),
                                saldo_anterior |-> Round2(saldo_anterior),
                                saldo_posterior |-> Round2(saldo_posterior)]
                  d1 == [d EXCEPT !.transacao_id_counter = @ + 1,
                                  !.transacoes = Put(@, transacao_id, transacao),
                                  !.conta_id_to_transacoes[conta_id] =
                                        AnexarTransacao(@, transacao_id)]
              IN Return(atualizar_saldo(d1, conta_id, saldo_posterior), transacao)

obter_transacoes_por_conta(d, conta_id) ==
    LET transacao_ids == Get(d.conta_id_to_transacoes, conta_id, << >>)
    IN [i \in 1..Len(transacao_ids) |-> d.transacoes[transacao_ids[i]]]

\* variant of ValoresDoTipo: the filter on the kind is left out
ValoresDeQualquerTipo(transacoes, tipo) ==
    [i \in 1..Len(transacoes) |-> transacoes[i].valor]

\* the amounts of the transactions of one kind, in list order
ValoresDoTipo(transacoes, tipo) ==
    LET RECURSIVE Pick(_)
        Pick(i) == IF i > Len(transacoes) THEN << >>
                   ELSE IF transacoes[i].tipo = tipo
                        THEN <<transacoes[i].valor>> \o Pick(i + 1)
                        ELSE Pick(i + 1)
    IN Pick(1)

obter_estatisticas_conta(d, conta_id) ==
    LET transacoes == obter_transacoes_por_conta(d, conta_id)
        total_depositos == SumSeq(ValoresDoTipo(transacoes, DEPOSITO))
        total_saques == SumSeq(ValoresDoTipo(transacoes, SAQUE))
    IN [total_depositos |-> Round2(total_depositos),
        total_saques |-> Round2(total_saques),
        quantidade_transacoes |-> Len(transacoes)]

---------------------------------------------------------------------------
(* models.py: TransacaoBase *)

\* Field(gt=0) and validar_valor_positivo: does the schema reject the amount
ValorRejeitado(v) == v <= 0

\* the value validar_valor_positivo hands to the handler
validar_valor_positivo(v) == Round2(v)

---------------------------------------------------------------------------
(* main.py: the handlers.  A handler is an `async def` with no await in   *)
(* its body, so one request is served in one step.                        *)

\* what is kept of a response: the endpoint, the HTTP status and the detail
Resposta(op, cpf, valor, status, detalhe, corpo) ==
    [op |-> op, status |-> status, detalhe |-> detalhe]

SemResposta == Resposta("nenhuma", "", 0, 0, "", None)

Init ==
    /\ db = DatabaseSimulator
    /\ resp = SemResposta
    /\ reqs = << >>
    /\ executando = 0

\* POST /usuarios/
handler_criar_usuario(cpf) ==
    LET r == criar_usuario(db, cpf) IN
    /\ db' = r.db
    /\ resp' = IF r.erro = ""
               THEN Resposta("criar_usuario", cpf, 0, 201, "", r.ret)
               ELSE Resposta("criar_usuario", cpf, 0, 400, r.erro, None)
    /\ UNCHANGED <<reqs, executando>>

\* POST /contas/
handler_criar_conta(cpf_atual, digito) ==
    LET usuario == obter_usuario_por_cpf(db, cpf_atual) IN
    /\ IF usuario = None
       THEN /\ db' = db
            /\ resp' = Resposta("criar_conta", cpf_atual, 0, 404,
                                "Usuario nao encontrado", None)
       ELSE LET r == criar_conta(db, usuario.id, digito) IN
            /\ db' = r.db
            /\ resp' = IF r.erro = ""
                       THEN Resposta("criar_conta", cpf_atual, 0, 201, "", r.ret)
                       ELSE Resposta("criar_conta", cpf_atual, 0, 400, r.erro, None)
    /\ UNCHANGED <<reqs, executando>>

\* The body shared by realizar_deposito and realizar_saque, which differ only
\* in the kind they pass: the response to a request of kind tipo with the
\* validated amount valor, and the instance after it.
Transacionar(d, op, tipo, cpf_atual, bruto, valor) ==
    LET usuario == obter_usuario_por_cpf(d, cpf_atual) IN
    IF usuario = None
    THEN [db |-> d, resp |-> Resposta(op, cpf_atual, bruto, 404,
                                      "Usuario nao encontrado", None)]
    ELSE LET conta == obter_conta_por_usuario(d, usuario.id) IN
         IF conta = None
         THEN [db |-> d, resp |-> Resposta(op, cpf_atual, bruto, 404,
                                           "Conta nao encontrada", None)]
         ELSE LET r == criar_transacao(d, conta.id, tipo, valor) IN
              [db |-> r.db,
               resp |-> IF r.erro = ""
                        THEN Resposta(op, cpf_atual, bruto, 201, "", r.ret)
                        ELSE Resposta(op, cpf_atual, bruto, 400, r.erro, None)]

\* a request body the schema rejects never reaches the handler
RespostaValorInvalido(op, cpf_atual, bruto) ==
    Resposta(op, cpf_atual, bruto, 422, "valor invalido", None)

\* POST /transacoes/deposito
realizar_deposito(cpf_atual, bruto) ==
    /\ db.transacao_id_counter <= MaxTransacoes
    /\ IF ValorRejeitado(bruto)
       THEN /\ db' = db
            /\ resp' = RespostaValorInvalido(DEPOSITO, cpf_atual, bruto)
       ELSE LET r == Transacionar(db, DEPOSITO, DEPOSITO, cpf_atual, bruto,
                                  validar_valor_positivo(bruto)) IN
            /\ db' = r.db
            /\ resp' = r.resp
    /\ UNCHANGED <<reqs, executando>>

\* POST /transacoes/saque
realizar_saque(cpf_atual, bruto) ==
    /\ db.transacao_id_counter <= MaxTransacoes
    /\ IF ValorRejeitado(bruto)
       THEN /\ db' = db
            /\ resp' = RespostaValorInvalido(SAQUE, cpf_atual, bruto)
       ELSE LET r == Transacionar(db, SAQUE, SAQUE, cpf_atual, bruto,
                                  validar_valor_positivo(bruto)) IN
            /\ db' = r.db
            /\ resp' = r.resp
    /\ UNCHANGED <<reqs, executando>>

\* the Extrato built by obter_extrato for an account
Extrato(d, conta) ==
    LET transacoes == obter_transacoes_por_conta(d, conta.id)
        estatisticas == obter_estatisticas_conta(d, conta.id)
    IN [conta |-> conta,
        transacoes |-> transacoes,
        total_depositos |-> estatisticas.total_depositos,
        total_saques |-> estatisticas.total_saques,
        quantidade_transacoes |-> estatisticas.quantidade_transacoes]

\* GET /transacoes/extrato
obter_extrato(cpf_atual) ==
    LET usuario == obter_usuario_por_cpf(db, cpf_atual) IN
    /\ resp' = IF usuario = None
               THEN Resposta("extrato", cpf_atual, 0, 404,
                             "Usuario nao encontrado", None)
               ELSE LET conta == obter_conta_por_usuario(db, usuario.id) IN
                    IF conta = None
                    THEN Resposta("extrato", cpf_atual, 0, 404,
                                  "Conta nao encontrada", None)
                    ELSE Resposta("extrato", cpf_atual, 0, 200, "",
                                  Extrato(db, conta))
    /\ UNCHANGED <<db, reqs, executando>>

Next ==
    \/ \E cpf \in CPFs : handler_criar_usuario(cpf)
    \/ \E cpf \in CPFs, digito \in DigitosDoLedger : handler_criar_conta(cpf, digito)
    \/ \E cpf \in CPFs, v \in ValoresDeposito : realizar_deposito(cpf, v)
    \/ \E cpf \in CPFs, v \in ValoresSaque : realizar_saque(cpf, v)
    \/ \E cpf \in CPFs : obter_extrato(cpf)

Spec == Init /\ [][Next]_vars

\* the identity store and the account registry alone, with every check digit
NextContas ==
    \/ \E cpf \in CPFs : handler_criar_usuario(cpf)
    \/ \E cpf \in CPFs, digito \in DigitosSorteados : handler_criar_conta(cpf, digito)

SpecContas == Init /\ [][NextContas]_vars

---------------------------------------------------------------------------
(* The read methods called on their own.  Each looks its argument up with  *)
(* dict.get and assigns to no attribute of self; the instance after the    *)
(* call is written out so that this is a result and not an assumption.     *)

\* ids a caller may ask for: those of the users and accounts that can exist
\* and one that never does
IdsConsultados == 1..(Cardinality(CPFs) + 1)

\* variant of AposGet: dict.setdefault(k, []) in place of dict.get(k)
AposSetDefault(dict, k) == IF k \in DOMAIN dict THEN dict ELSE Put(dict, k, << >>)

\* the dict after dict.get(k) or dict.get(k, default)
AposGet(dict, k) == dict

apos_obter_usuario_por_cpf(d, cpf) ==
    LET usuario_id == Get(d.cpf_to_usuario_id, cpf, 0)
        d1 == [d EXCEPT !.cpf_to_usuario_id = AposGet(@, cpf)]
    IN IF usuario_id # 0
       THEN [d1 EXCEPT !.usuarios = AposGet(@, usuario_id)]
       ELSE d1

apos_obter_usuario_por_id(d, usuario_id) ==
    [d EXCEPT !.usuarios = AposGet(@, usuario_id)]

apos_obter_conta_por_usuario(d, usuario_id) ==
    LET conta_id == Get(d.usuario_id_to_conta_id, usuario_id, 0)
        d1 == [d EXCEPT !.usuario_id_to_conta_id = AposGet(@, usuario_id)]
    IN IF conta_id # 0
       THEN [d1 EXCEPT !.contas = AposGet(@, conta_id)]
       ELSE d1

apos_obter_conta_por_id(d, conta_id) ==
    [d EXCEPT !.contas = AposGet(@, conta_id)]

apos_obter_transacoes_por_conta(d, conta_id) ==
    [d EXCEPT !.conta_id_to_transacoes = AposGet(@, conta_id)]

apos_obter_estatisticas_conta(d, conta_id) ==
    apos_obter_transacoes_por_conta(d, conta_id)

\* a read answers with what it returned; the argument is kept with it
Leitura(op, args, d_apos, corpo) ==
    /\ db' = d_apos
    /\ resp' = [op |-> op, args |-> args, status |-> 200, detalhe |-> "",
                corpo |-> corpo]
    /\ UNCHANGED <<reqs, executando>>

ler_usuario_por_cpf(cpf) ==
    Leitura("obter_usuario_por_cpf", cpf,
            apos_obter_usuario_por_cpf(db, cpf), obter_usuario_por_cpf(db, cpf))

ler_usuario_por_id(usuario_id) ==
    Leitura("obter_usuario_por_id", usuario_id,
            apos_obter_usuario_por_id(db, usuario_id),
            obter_usuario_por_id(db, usuario_id))

ler_conta_por_usuario(usuario_id) ==
    Leitura("obter_conta_por_usuario", usuario_id,
            apos_obter_conta_por_usuario(db, usuario_id),
            obter_conta_por_usuario(db, usuario_id))

ler_conta_por_id(conta_id) ==
    Leitura("obter_conta_por_id", conta_id,
            apos_obter_conta_por_id(db, conta_id), obter_conta_por_id(db, conta_id))

ler_transacoes_por_conta(conta_id) ==
    Leitura("obter_transacoes_por_conta", conta_id,
            apos_obter_transacoes_por_conta(db, conta_id),
            obter_transacoes_por_conta(db, conta_id))

ler_estatisticas_conta(conta_id) ==
    Leitura("obter_estatisticas_conta", conta_id,
            apos_obter_estatisticas_conta(db, conta_id),
            obter_estatisticas_conta(db, conta_id))

\* GET /transacoes/extrato with the body of its response: the four reads of
\* the handler one after the other
ler_extrato(cpf_atual) ==
    LET usuario == obter_usuario_por_cpf(db, cpf_atual)
        d1 == apos_obter_usuario_por_cpf(db, cpf_atual)
    IN IF usuario = None
       THEN Leitura("obter_extrato", cpf_atual, d1, None)
       ELSE LET conta == obter_conta_por_usuario(d1, usuario.id)
                d2 == apos_obter_conta_por_usuario(d1, usuario.id)
            IN IF conta = None
               THEN Leitura("obter_extrato", cpf_atual, d2, None)
               ELSE Leitura("obter_extrato", cpf_atual,
                            apos_obter_estatisticas_conta(
                                apos_obter_transacoes_por_conta(d2, conta.id),
                                conta.id),
                            Extrato(d2, conta))

\* two of the amounts test_api.py moves: 500.00 and 200.00
ValoresDoRoteiro == {200000, 500000}

NextLeituras ==
    \/ \E cpf \in CPFs : handler_criar_usuario(cpf)
    \/ \E cpf \in CPFs, digito \in DigitosDoLedger : handler_criar_conta(cpf, digito)
    \/ \E cpf \in CPFs, v \in ValoresDoRoteiro : realizar_deposito(cpf, v)
    \/ \E cpf \in CPFs, v \in ValoresDoRoteiro : realizar_saque(cpf, v)
    \/ \E cpf \in CPFs : ler_usuario_por_cpf(cpf)
    \/ \E id \in IdsConsultados : ler_usuario_por_id(id)
    \/ \E id \in IdsConsultados : ler_conta_por_usuario(id)
    \/ \E id \in IdsConsultados : ler_conta_por_id(id)
    \/ \E id \in IdsConsultados : ler_transacoes_por_conta(id)
    \/ \E id \in IdsConsultados : ler_estatisticas_conta(id)
    \/ \E cpf \in CPFs : ler_extrato(cpf)

SpecLeituras == Init /\ [][NextLeituras]_vars

---------------------------------------------------------------------------
(* Definitions shared by what follows *)

MsgSaldoInsuficiente == "Saldo insuficiente para realizar o saque"

Contas == DOMAIN db.contas

\* the account a request authenticated as cpf acts on, None if there is none
ContaDoCpf(d, cpf) ==
    LET usuario == obter_usuario_por_cpf(d, cpf)
    IN IF usuario = None THEN None ELSE obter_conta_por_usuario(d, usuario.id)

\* the records of the transaction store that name account c
TransacoesDaConta(d, c) ==
    {id \in DOMAIN d.transacoes : d.transacoes[id].conta_id = c}

RECURSIVE SomaValores(_, _)
SomaValores(d, ids) ==
    IF ids = {} THEN 0
    ELSE LET id == CHOOSE x \in ids : TRUE
         IN d.transacoes[id].valor + SomaValores(d, ids \ {id})

Rejeitado(r) == r.status = 400 /\ r.detalhe = MsgSaldoInsuficiente

---------------------------------------------------------------------------
(* Requests in flight.  uvicorn.run(app) serves every request on one event *)
(* loop (main.py:361-368).  A request is received (body parsed by the      *)
(* schema, token resolved) and its handler coroutine then waits for the    *)
(* loop.  The steps below are the statements of realizar_deposito /        *)
(* realizar_saque and of criar_transacao, one request at a time; the loop  *)
(* can leave a coroutine only where it awaits.                             *)

MaxEmVoo == 2

\* variant of PodeTrocar: every statement of a handler is a suspension point
PodeTrocarSempre(ponto) == TRUE

\* Can the event loop switch to another coroutine when a handler has
\* reached this point of its body?  The handlers hold no await.
PodeTrocar(ponto) == FALSE

\* both users registered, both accounts open and empty
DbComContas ==
    LET RECURSIVE Abrir(_, _)
        Abrir(d, cpfs) ==
            IF cpfs = {} THEN d
            ELSE LET cpf == CHOOSE x \in cpfs : TRUE
                     u == criar_usuario(d, cpf)
                     c == criar_conta(u.db, u.ret.id, 7)
                 IN Abrir(c.db, cpfs \ {cpf})
    IN Abrir(DatabaseSimulator, CPFs)

InitConcorrente ==
    /\ db = DbComContas
    /\ resp = SemResposta
    /\ reqs = << >>
    /\ executando = 0

Requisicoes == 1..Len(reqs)

EmVoo == {i \in Requisicoes : reqs[i].pc # "respondida"}

\* the loop after request i reached ponto
Ceder(i, ponto) == IF PodeTrocar(ponto) THEN 0 ELSE i

Responder(i, status, detalhe) ==
    /\ reqs' = [reqs EXCEPT ![i].pc = "respondida",
                            ![i].status = status,
                            ![i].detalhe = detalhe]
    /\ resp' = Resposta(reqs[i].tipo, reqs[i].cpf, reqs[i].bruto, status, detalhe, None)
    /\ executando' = 0

\* a request arrives while no handler holds the loop; the schema answers 422
\* by itself
Receber(tipo, cpf, bruto) ==
    /\ executando = 0
    /\ Len(reqs) < MaxEmVoo
    /\ LET rejeitado == ValorRejeitado(bruto)
           r == [tipo |-> tipo, cpf |-> cpf, bruto |-> bruto,
                 valor |-> IF rejeitado THEN 0 ELSE validar_valor_positivo(bruto),
                 pc |-> IF rejeitado THEN "respondida" ELSE "recebida",
                 status |-> IF rejeitado THEN 422 ELSE 0,
                 detalhe |-> IF rejeitado THEN "valor invalido" ELSE "",
                 simultaneas |-> EmVoo,
                 conta_id |-> 0, saldo_anterior |-> 0, saldo_posterior |-> 0,
                 transacao_id |-> 0]
       IN reqs' = Append(reqs, r)
    /\ UNCHANGED <<db, resp, executando>>

\* main.py:208-220: the handler starts and looks up the user and the account
Iniciar(i) ==
    /\ executando = 0
    /\ reqs[i].pc = "recebida"
    /\ LET usuario == obter_usuario_por_cpf(db, reqs[i].cpf)
           conta == ContaDoCpf(db, reqs[i].cpf)
       IN IF usuario = None
          THEN Responder(i, 404, "Usuario nao encontrado")
          ELSE IF conta = None
          THEN Responder(i, 404, "Conta nao encontrada")
          ELSE /\ reqs' = [reqs EXCEPT ![i].pc = "conta_obtida",
                                       ![i].conta_id = conta.id]
               /\ executando' = Ceder(i, "conta_obtida")
               /\ UNCHANGED resp
    /\ UNCHANGED db

Passo(i, ponto) == executando \in {0, i} /\ reqs[i].pc = ponto

\* database.py:123-127
LerSaldo(i) ==
    /\ Passo(i, "conta_obtida")
    /\ LET conta == obter_conta_por_id(db, reqs[i].conta_id) IN
       IF conta = None
       THEN Responder(i, 400, "Conta nao encontrada")
       ELSE /\ reqs' = [reqs EXCEPT ![i].pc = "saldo_lido",
                                    ![i].saldo_anterior = conta.saldo]
            /\ executando' = Ceder(i, "saldo_lido")
            /\ UNCHANGED resp
    /\ UNCHANGED db

\* database.py:130-135
Calcular(i) ==
    /\ Passo(i, "saldo_lido")
    /\ LET r == reqs[i] IN
       IF r.tipo = SAQUE /\ SaldoInsuficiente(r.saldo_anterior, r.valor)
       THEN Responder(i, 400, MsgSaldoInsuficiente)
       ELSE /\ reqs' = [reqs EXCEPT ![i].pc = "calculado",
                                    ![i].saldo_posterior =
                                        SaldoPosterior(r.tipo, r.saldo_anterior, r.valor)]
            /\ executando' = Ceder(i, "calculado")
            /\ UNCHANGED resp
    /\ UNCHANGED db

\* database.py:138-139
AlocarId(i) ==
    /\ Passo(i, "calculado")
    /\ reqs' = [reqs EXCEPT ![i].pc = "id_alocado",
                            ![i].transacao_id = db.transacao_id_counter]
    /\ db' = [db EXCEPT !.transacao_id_counter = @ + 1]
    /\ executando' = Ceder(i, "id_alocado")
    /\ UNCHANGED resp

\* database.py:141-153
Gravar(i) ==
    /\ Passo(i, "id_alocado")
    /\ LET r == reqs[i]
           transacao == [id |-> r.transacao_id,
                         conta_id |-> r.conta_id,
                         tipo |-> r.tipo,
                         valor |-> Round2(r.valor),
                         saldo_anterior |-> Round2(r.saldo_anterior),
                         saldo_posterior |-> Round2(r.saldo_posterior)]
       IN db' = [db EXCEPT !.transacoes = Put(@, r.transacao_id, transacao),
                           !.conta_id_to_transacoes[r.conta_id] =
                                 AnexarTransacao(@, r.transacao_id)]
    /\ reqs' = [reqs EXCEPT ![i].pc = "gravada"]
    /\ executando' = Ceder(i, "gravada")
    /\ UNCHANGED resp

\* database.py:156-158 and main.py:229: the balance is stored and the
\* handler returns
Concluir(i) ==
    /\ Passo(i, "gravada")
    /\ db' = atualizar_saldo(db, reqs[i].conta_id, reqs[i].saldo_posterior)
    /\ Responder(i, 201, "")

NextConcorrente ==
    \/ \E cpf \in CPFs, v \in ValoresDeposito : Receber(DEPOSITO, cpf, v)
    \/ \E cpf \in CPFs, v \in ValoresSaque : Receber(SAQUE, cpf, v)
    \/ \E i \in Requisicoes : Iniciar(i)
    \/ \E i \in Requisicoes : LerSaldo(i)
    \/ \E i \in Requisicoes : Calcular(i)
    \/ \E i \in Requisicoes : AlocarId(i)
    \/ \E i \in Requisicoes : Gravar(i)
    \/ \E i \in Requisicoes : Concluir(i)

SpecConcorrente == InitConcorrente /\ [][NextConcorrente]_vars

---------------------------------------------------------------------------
(* Properties *)

\* C1: every account's balance is >= 0 in every reachable state.
C1_SaldoNaoNegativo == \A c \in Contas : db.contas[c].saldo >= 0

\* an account was emptied by a withdrawal and a further withdrawal was refused
C1_Witness ==
    /\ Rejeitado(resp)
    /\ \E id \in DOMAIN db.transacoes :
          /\ db.transacoes[id].tipo = SAQUE
          /\ db.transacoes[id].valor > 0
          /\ db.contas[db.transacoes[id].conta_id].saldo = 0

C3_ValorNaoPositivoRejeitado ==
    [][/\ \A cpf \in CPFs, v \in ValoresDeposito \cup ValoresSaque :
            (/\ Round2(v) <= 0
             /\ ContaDoCpf(db, cpf) # None
             /\ realizar_deposito(cpf, v) \/ realizar_saque(cpf, v))
            => /\ resp'.status \in {400, 422}
               /\ db' = db
       /\ \A id \in DOMAIN db'.transacoes : db'.transacoes[id].valor > 0]_vars

CadeiaIntacta(c) ==
    LET l == obter_transacoes_por_conta(db, c) IN
    /\ l = << >> => db.contas[c].saldo = 0
    /\ l # << >> =>
          /\ l[1].saldo_anterior = 0
          /\ l[Len(l)].saldo_posterior = db.contas[c].saldo
    /\ \A i \in 2..Len(l) : l[i].saldo_anterior = l[i - 1].saldo_posterior

\* C4: for every account, the transactions in list order chain: the first
\* starts from 0, each later one starts from the balance the previous one
\* left, and the last one leaves the account's current balance (0 when the
\* list is empty).
C4_CadeiaDeSaldos == \A c \in Contas : CadeiaIntacta(c)

\* one account holds three transactions with a non-zero balance while another
\* account holds none
C4_Witness ==
    /\ \E c \in Contas : Len(db.conta_id_to_transacoes[c]) = 3 /\ db.contas[c].saldo > 0
    /\ \E c \in Contas : db.conta_id_to_transacoes[c] = << >>

Efetivada(tipo, cpf, v) ==
    LET conta == ContaDoCpf(db, cpf)
        valor == validar_valor_positivo(v)
        id == db.transacao_id_counter
    IN /\ id \notin DOMAIN db.transacoes
       /\ DOMAIN db'.transacoes = DOMAIN db.transacoes \cup {id}
       /\ LET t == db'.transacoes[id]
          IN /\ t.conta_id = conta.id
             /\ t.tipo = tipo
             /\ t.valor = valor
             /\ t.saldo_anterior = conta.saldo
             /\ t.saldo_posterior = IF tipo = DEPOSITO
                                    THEN conta.saldo + valor
                                    ELSE conta.saldo - valor
             /\ db'.contas[conta.id].saldo = t.saldo_posterior
       /\ db'.conta_id_to_transacoes[conta.id] =
             Append(db.conta_id_to_transacoes[conta.id], id)

\* C5: an accepted deposit or withdrawal records the balance of the moment of
\* the call as balance-before, balance-before plus (deposit) or minus
\* (withdrawal) the amount as balance-after, makes balance-after the account's
\* balance and appends exactly one transaction to that account's list.
C5_TransacaoEfetivada ==
    [][/\ \A cpf \in CPFs, v \in ValoresDeposito :
            resp'.op = DEPOSITO /\ resp'.status = 201 /\ realizar_deposito(cpf, v)
            => Efetivada(DEPOSITO, cpf, v)
       /\ \A cpf \in CPFs, v \in ValoresSaque :
            resp'.op = SAQUE /\ resp'.status = 201 /\ realizar_saque(cpf, v)
            => Efetivada(SAQUE, cpf, v)]_vars

\* Scenario A: deposits of 1000.00 and 500.00 then a withdrawal of 200.00 on a
\* new account: balances 1000.00, 1500.00, 1300.00
CenarioA(c) ==
    LET l == obter_transacoes_por_conta(db, c) IN
    /\ Len(l) = 3
    /\ l[1].tipo = DEPOSITO /\ l[1].valor = 1000000
    /\ l[1].saldo_anterior = 0 /\ l[1].saldo_posterior = 1000000
    /\ l[2].tipo = DEPOSITO /\ l[2].valor = 500000
    /\ l[2].saldo_posterior = 1500000
    /\ l[3].tipo = SAQUE /\ l[3].valor = 200000
    /\ l[3].saldo_posterior = 1300000
    /\ db.contas[c].saldo = 1300000

C5_Witness == resp.op = SAQUE /\ resp.status = 201 /\ \E c \in Contas : CenarioA(c)

CpfsDistintos ==
    \A u1, u2 \in DOMAIN db.usuarios :
        db.usuarios[u1].cpf = db.usuarios[u2].cpf => u1 = u2

CpfsDosUsuarios(d) == {d.usuarios[u].cpf : u \in DOMAIN d.usuarios}

\* C6: no two users share a CPF, and registering a CPF that a stored user
\* already has is refused with "CPF ja cadastrado" and changes nothing.
C6_CpfUnico ==
    /\ []CpfsDistintos
    /\ [][\A cpf \in CPFs :
             (/\ resp'.op = "criar_usuario"
              /\ cpf \in CpfsDosUsuarios(db)
              /\ handler_criar_usuario(cpf))
             => /\ resp'.status = 400
                /\ resp'.detalhe = "CPF ja cadastrado"
                /\ db' = db]_vars

\* both CPFs are registered and a further registration was just refused
C6_Witness ==
    /\ resp.op = "criar_usuario"
    /\ resp.status = 400
    /\ CpfsDosUsuarios(db) = CPFs

ContasDoUsuario(d, u) == {c \in DOMAIN d.contas : d.contas[c].usuario_id = u}

UmaContaPorUsuario ==
    /\ \A c \in Contas : db.contas[c].usuario_id \in DOMAIN db.usuarios
    /\ \A u \in DOMAIN db.usuarios : Cardinality(ContasDoUsuario(db, u)) <= 1

\* C7: a user owns at most one account, every account belongs to a stored
\* user, and opening an account for a user who owns one is refused with
\* "Usuario ja possui uma conta" and changes nothing.
C7_UmaContaPorUsuario ==
    /\ []UmaContaPorUsuario
    /\ [][\A cpf \in CPFs, digito \in DigitosSorteados :
             (/\ resp'.op = "criar_conta"
              /\ obter_usuario_por_cpf(db, cpf) # None
              /\ ContasDoUsuario(db, obter_usuario_por_cpf(db, cpf).id) # {}
              /\ handler_criar_conta(cpf, digito))
             => /\ resp'.status = 400
                /\ resp'.detalhe = "Usuario ja possui uma conta"
                /\ db' = db]_vars

\* Scenario D: a second account was refused to a user whose account already
\* holds transactions
C7_Witness ==
    /\ resp.op = "criar_conta"
    /\ resp.status = 400
    /\ \E c \in Contas : db.conta_id_to_transacoes[c] # << >>

ListaExata(c) ==
    LET l == obter_transacoes_por_conta(db, c) IN
    /\ \A i \in 1..Len(l) : l[i].conta_id = c
    /\ {l[i].id : i \in 1..Len(l)} = TransacoesDaConta(db, c)
    /\ \A i, j \in 1..Len(l) : i < j => l[i].id < l[j].id

Permutacoes(S) ==
    {s \in [1..Cardinality(S) -> S] : \A i, j \in 1..Cardinality(S) : s[i] = s[j] => i = j}

\* the requests a handler has answered
Atendidas == {i \in Requisicoes : reqs[i].pc = "respondida" /\ reqs[i].status # 422}

\* no handler is inside its body
Quiescente == \A i \in Requisicoes : reqs[i].pc \in {"recebida", "respondida"}

\* serving the requests of ordem one after the other from d, each in one
\* piece, gives the responses they got and ends in the current instance
RECURSIVE EmSerie(_, _)
EmSerie(d, ordem) ==
    IF Len(ordem) = 0 THEN d = db
    ELSE LET r == reqs[ordem[1]]
             t == Transacionar(d, r.tipo, r.tipo, r.cpf, r.bruto, r.valor)
         IN /\ t.resp.status = r.status
            /\ t.resp.detalhe = r.detalhe
            /\ EmSerie(t.db, [k \in 1..(Len(ordem) - 1) |-> ordem[k + 1]])

\* C8: requests in flight at the same time are serialized: whenever no
\* handler is inside its body, the instance and the responses are those of
\* serving the answered requests one after the other in some order, no two
\* transactions share an id and every account's chain of balances is intact.
C8_Serializado ==
    Quiescente =>
        /\ \E ordem \in Permutacoes(Atendidas) : EmSerie(DbComContas, ordem)
        /\ \A c \in Contas : CadeiaIntacta(c) /\ ListaExata(c)

\* two deposits on the same account were in flight together and both were
\* accepted
C8_Witness ==
    /\ Len(reqs) = 2
    /\ reqs[1].cpf = reqs[2].cpf
    /\ reqs[2].simultaneas = {1}
    /\ reqs[1].tipo = DEPOSITO /\ reqs[2].tipo = DEPOSITO
    /\ reqs[1].status = 201 /\ reqs[2].status = 201
    /\ reqs[1].valor > 0 /\ reqs[2].valor > 0
    /\ \E c \in Contas : Len(db.conta_id_to_transacoes[c]) = 2


\* C9: the list of an account holds exactly the stored transactions that name
\* the account, in strictly ascending id order; ids come from one counter, lie
\* below it and a new id is above every id in use.
C9_ListaOrdenada ==
    /\ [](/\ \A c \in Contas : ListaExata(c)
          /\ \A id \in DOMAIN db.transacoes :
                /\ db.transacoes[id].id = id
                /\ id < db.transacao_id_counter)
    /\ [][/\ db'.transacao_id_counter >= db.transacao_id_counter
          /\ \A novo \in DOMAIN db'.transacoes \ DOMAIN db.transacoes :
                \A antigo \in DOMAIN db.transacoes : novo > antigo]_vars

\* two accounts with interleaved transactions: one holds ids 1 and 3, the
\* other id 2
C9_Witness ==
    \E c1, c2 \in Contas :
        /\ db.conta_id_to_transacoes[c1] = <<1, 3>>
        /\ db.conta_id_to_transacoes[c2] = <<2>>

EstatisticasCorretas(c) ==
    LET e == obter_estatisticas_conta(db, c)
        ids == TransacoesDaConta(db, c)
    IN /\ e.total_depositos =
             SomaValores(db, {id \in ids : db.transacoes[id].tipo = DEPOSITO})
       /\ e.total_saques =
             SomaValores(db, {id \in ids : db.transacoes[id].tipo = SAQUE})
       /\ e.quantidade_transacoes = Cardinality(ids)

\* C10: the statistics of an account are the sum of the amounts of its stored
\* deposits, the sum of the amounts of its stored withdrawals and the number
\* of its stored transactions.
C10_Estatisticas == \A c \in Contas : EstatisticasCorretas(c)

\* Scenario A as the statement shows it: 1500.00, 200.00, 3
C10_Witness ==
    /\ resp.op = "extrato" /\ resp.status = 200
    /\ \E c \in Contas :
          /\ CenarioA(c)
          /\ obter_estatisticas_conta(db, c) =
                [total_depositos |-> 1500000, total_saques |-> 200000,
                 quantidade_transacoes |-> 3]

Prefixo(s, t) == Len(s) <= Len(t) /\ \A i \in 1..Len(s) : s[i] = t[i]

\* C11: a stored transaction keeps every field of its record in every later
\* state, no transaction, account or user is ever removed, and the list of an
\* account (its ids and the records listed for it) only grows at the end.
C11_LedgerImutavel ==
    [][/\ \A id \in DOMAIN db.transacoes :
             /\ id \in DOMAIN db'.transacoes
             /\ db'.transacoes[id] = db.transacoes[id]
       /\ DOMAIN db.usuarios \subseteq DOMAIN db'.usuarios
       /\ DOMAIN db.contas \subseteq DOMAIN db'.contas
       /\ \A c \in DOMAIN db.contas :
             /\ Prefixo(Get(db.conta_id_to_transacoes, c, << >>),
                        Get(db'.conta_id_to_transacoes, c, << >>))
             /\ Prefixo(obter_transacoes_por_conta(db, c),
                        obter_transacoes_por_conta(db', c))]_vars

\* a withdrawal was just added to an account that already held a transaction,
\* while another account holds one too
C11_Witness ==
    /\ resp.op = SAQUE /\ resp.status = 201
    /\ \E c1, c2 \in Contas :
          /\ c1 # c2
          /\ Len(db.conta_id_to_transacoes[c1]) >= 2
          /\ Len(db.conta_id_to_transacoes[c2]) >= 1

OperacoesDeLeitura ==
    {"obter_usuario_por_cpf", "obter_usuario_por_id", "obter_conta_por_usuario",
     "obter_conta_por_id", "obter_transacoes_por_conta",
     "obter_estatisticas_conta", "obter_extrato"}

\* C12: a read (by CPF, by user, by id, the list, the statistics, the
\* statement) leaves the whole instance as it was, and the same read asked
\* again right after a read returns the same result.
C12_LeiturasSemEfeito ==
    [][resp'.op \in OperacoesDeLeitura =>
          /\ db' = db
          /\ (resp.op = resp'.op /\ resp.args = resp'.args)
                => resp'.corpo = resp.corpo]_vars

\* the statement of an account with three transactions was just returned
C12_Witness ==
    /\ resp.op = "obter_extrato"
    /\ resp.corpo # None
    /\ Len(resp.corpo.transacoes) = 3
    /\ resp.corpo.conta.saldo > 0

\* C13: no two accounts have the same account number: their sequence
\* components differ whatever check digits were drawn, refused openings
\* included in the history.
C13_NumeroDeContaUnico ==
    \A c1, c2 \in Contas :
        c1 # c2 =>
            /\ db.contas[c1].numero_conta.numero # db.contas[c2].numero_conta.numero
            /\ db.contas[c1].numero_conta # db.contas[c2].numero_conta

\* two accounts drew the same check digit and a further opening was refused
C13_Witness ==
    /\ resp.op = "criar_conta" /\ resp.status = 400
    /\ \E c1, c2 \in Contas :
          /\ c1 # c2
          /\ db.contas[c1].numero_conta.digito = db.contas[c2].numero_conta.digito

\* what a request authenticated as cpf must leave alone: every account but
\* the one of cpf, with its list and the records listed for it, the users,
\* the set of accounts, the two identity indexes and their counters
RestoIntacto(cpf) ==
    LET a == ContaDoCpf(db, cpf) IN
    /\ \A c \in Contas :
          (a = None \/ c # a.id) =>
              /\ c \in DOMAIN db'.contas
              /\ db'.contas[c] = db.contas[c]
              /\ db'.conta_id_to_transacoes[c] = db.conta_id_to_transacoes[c]
              /\ obter_transacoes_por_conta(db', c) = obter_transacoes_por_conta(db, c)
    /\ DOMAIN db'.contas = DOMAIN db.contas
    /\ DOMAIN db'.conta_id_to_transacoes = DOMAIN db.conta_id_to_transacoes
    /\ db'.usuarios = db.usuarios
    /\ db'.cpf_to_usuario_id = db.cpf_to_usuario_id
    /\ db'.usuario_id_to_conta_id = db.usuario_id_to_conta_id
    /\ db'.usuario_id_counter = db.usuario_id_counter
    /\ db'.conta_id_counter = db.conta_id_counter

\* C14: a deposit or a withdrawal on one account, accepted or refused,
\* leaves the balance and the list of every other account as they were;
\* besides its own account it changes only the transaction store and the
\* transaction id counter.
C14_OutrasContasIntactas ==
    [][/\ \A cpf \in CPFs, v \in ValoresDeposito :
             (resp'.op = DEPOSITO /\ realizar_deposito(cpf, v)) => RestoIntacto(cpf)
       /\ \A cpf \in CPFs, v \in ValoresSaque :
             (resp'.op = SAQUE /\ realizar_saque(cpf, v)) => RestoIntacto(cpf)]_vars

\* a transaction was just accepted on one account while the other account
\* holds a balance and a transaction of its own
C14_Witness ==
    /\ resp.status = 201
    /\ resp.op \in {DEPOSITO, SAQUE}
    /\ \E a, b \in Contas :
          /\ a # b
          /\ db.transacoes[db.transacao_id_counter - 1].conta_id = a
          /\ db.contas[b].saldo > 0
          /\ db.conta_id_to_transacoes[b] # << >>

\* C15: the balance of every account is the total of its deposits minus the
\* total of its withdrawals, both as obter_estatisticas_conta reports them.
C15_Conservacao ==
    \A c \in Contas :
        LET e == obter_estatisticas_conta(db, c)
        IN db.contas[c].saldo = e.total_depositos - e.total_saques

\* an account with deposits and a withdrawal behind it and money left
C15_Witness ==
    \E c \in Contas :
        LET e == obter_estatisticas_conta(db, c)
        IN /\ e.quantidade_transacoes = 3
           /\ e.total_saques > 0
           /\ e.total_depositos > e.total_saques
           /\ db.contas[c].saldo > 0

\* how many times id stands in the sequence lista
Ocorrencias(lista, id) == Cardinality({i \in 1..Len(lista) : lista[i] = id})

IndiceDeCpfs ==
    /\ DOMAIN db.cpf_to_usuario_id = CpfsDosUsuarios(db)
    /\ \A u \in DOMAIN db.usuarios :
          /\ db.usuarios[u].id = u
          /\ db.cpf_to_usuario_id[db.usuarios[u].cpf] = u

IndiceDeContas ==
    /\ DOMAIN db.usuario_id_to_conta_id =
          {db.contas[c].usuario_id : c \in DOMAIN db.contas}
    /\ \A c \in DOMAIN db.contas :
          /\ db.contas[c].id = c
          /\ db.usuario_id_to_conta_id[db.contas[c].usuario_id] = c

IndiceDeTransacoes ==
    /\ DOMAIN db.conta_id_to_transacoes = DOMAIN db.contas
    /\ \A id \in DOMAIN db.transacoes :
          /\ db.transacoes[id].id = id
          /\ db.transacoes[id].conta_id \in DOMAIN db.contas
          /\ \A c \in DOMAIN db.conta_id_to_transacoes :
                Ocorrencias(db.conta_id_to_transacoes[c], id) =
                    IF c = db.transacoes[id].conta_id THEN 1 ELSE 0
    /\ \A c \in DOMAIN db.conta_id_to_transacoes :
          \A i \in 1..Len(db.conta_id_to_transacoes[c]) :
              db.conta_id_to_transacoes[c][i] \in DOMAIN db.transacoes

IdsAbaixoDosContadores ==
    /\ \A u \in DOMAIN db.usuarios : u < db.usuario_id_counter
    /\ \A c \in DOMAIN db.contas : c < db.conta_id_counter
    /\ \A id \in DOMAIN db.transacoes : id < db.transacao_id_counter

\* C16: the indexes agree with the records: the CPF index maps exactly the
\* CPFs of the stored users to their ids, the user-to-account index exactly
\* the owners of the stored accounts to those accounts, every account has a
\* list, every stored transaction id stands once in the list of the account
\* its record names and in no other, and every stored id is below its
\* counter.
C16_IndicesConsistentes ==
    /\ IndiceDeCpfs
    /\ IndiceDeContas
    /\ IndiceDeTransacoes
    /\ IdsAbaixoDosContadores

\* two users, each with an account, and transactions on both accounts
C16_Witness ==
    /\ Cardinality(DOMAIN db.usuarios) = 2
    /\ Cardinality(DOMAIN db.contas) = 2
    /\ Cardinality(DOMAIN db.transacoes) = 3
    /\ \A c \in Contas : db.conta_id_to_transacoes[c] # << >>

=============================================================================
